---- MODULE Spec2Model ----
\* Quiz engine and dashboard statistics of the feedback platform:
\* services/quiz_service.py, services/stats_service.py and the quiz and
\* dashboard routes of app.py.
EXTENDS Integers, Sequences, FiniteSets, TLC

\* ---------------------------------------------------------------- bounds
\* Largest question pool the initial states draw.
MaxPool == 2
\* Cap on the number of Quiz rows (the table is unbounded in the program).
MaxQuizzes == 2
\* Cap on the number of Submission rows.
MaxSubs == 2
\* Largest list of selected ids graded function by function.
MaxGraded == 5
\* Largest number of submissions in a history of graded activities.
MaxHistory == 2
\* Last day a history of graded activities covers.
MaxDay == 2
\* Largest pool the selection functions are applied to.
MaxSelect == 3
\* Completion requests processed at the same time.
MaxRequests == 2

\* ------------------------------------------------------- program constants
\* limit=5 passed by start_quiz to get_questions.
QuizLimit == 5
\* Length of the window of the instructor's sparklines: range(6, -1, -1).
WindowDays == 7
\* Days after which strftime('%d %b') repeats a label.
DaysPerYear == 365
\* The day the requests of a quiz session are made.
FirstDay == 1
\* The logged-in student (current_user.id) and another student.
CurrentUser == 1
OtherUser == 2

\* Python None / SQL NULL.
NoVal == "<None>"
\* None / NULL in a numeric column (scores are never negative).
NoScore == 0 - 1

\* ---------------------------------------------------------------- strings
\* str.lower() / SQL lower() on the strings the model uses.
Lower(s) ==
  CASE s = "Grammar" -> "grammar"
    [] s = "Mixed" -> "mixed"
    [] s = "Vocabulary" -> "vocabulary"
    [] s = "Reading" -> "reading"
    [] s = "A" -> "a"
    [] s = "B" -> "b"
    [] OTHER -> s

\* str.upper() on answer labels.
Upper(s) ==
  CASE s = "a" -> "A"
    [] s = "b" -> "B"
    [] OTHER -> s

\* str.strip() on the strings the model uses.
Strip(s) == IF s = " " THEN "" ELSE s

\* Python truthiness of an optional string: None and '' are falsy.
Truthy(s) == s # NoVal /\ s # ""

\* ------------------------------------------------------------ small helpers
Min(a, b) == IF a <= b THEN a ELSE b

MaxOf(S) == IF S = {} THEN 0 ELSE CHOOSE x \in S : \A y \in S : y <= x

\* The next autoincrement primary key of a table.
NextId(rows) == MaxOf({r.id : r \in rows}) + 1

RECURSIVE SortedSeq(_)
\* The elements of a finite set of integers in increasing order.
SortedSeq(S) ==
  IF S = {} THEN << >>
  ELSE LET m == CHOOSE x \in S : \A y \in S : x <= y
       IN  << m >> \o SortedSeq(S \ {m})

Range(f) == {f[i] : i \in DOMAIN f}

\* Python round(num / den, 0) on an exact quotient: round half to even.
RoundHalfEven(num, den) ==
  LET q == num \div den
      r == num % den
  IN  IF 2 * r > den THEN q + 1
      ELSE IF 2 * r < den THEN q
      ELSE IF q % 2 = 0 THEN q ELSE q + 1

\* ------------------------------------------------------------------ state
VARIABLES
  pool,        \* questions table: pool[id] = [category, correct_answer]
  session,     \* the Flask session of the logged-in student
  quizzes,     \* committed rows of table quizzes
  quiz_details,\* committed rows of table quiz_details
  submissions, \* committed rows of table submissions
  grades,      \* committed rows of table grades
  goals,       \* committed rows of table learning_goals
  last,        \* the last request and its response
  session_results, \* Quiz rows committed since the last successful start_quiz
  today,       \* datetime.utcnow().date(), as a day number
  dash,        \* what the last dashboard computation returned
  inflight     \* the completion requests the web layer is processing

vars == << pool, session, quizzes, quiz_details, submissions, grades, goals,
           last, session_results, today, dash, inflight >>

db == << quizzes, quiz_details, submissions, grades, goals >>

\* ------------------------------------------------------------- questions
\* correct_answer is stored upper-cased (manage_questions, seed_questions);
\* the pools drawn alternate the key between 'A' and 'B'.
AnswerKey(id) == IF id % 2 = 1 THEN "A" ELSE "B"

\* Two question banks, in primary-key order; category is nullable free text.
\* The first mixes a capitalised category, no category and 'Mixed'.
BankA(id) ==
  [category |-> CASE id % 3 = 1 -> "Grammar" [] id % 3 = 2 -> NoVal [] OTHER -> "Mixed",
   correct_answer |-> AnswerKey(id)]

\* The second starts with a question of no category and tags nothing 'mixed'.
BankB(id) ==
  [category |-> IF id = 1 THEN NoVal ELSE "Grammar",
   correct_answer |-> AnswerKey(id)]

\* The third starts with a question of another category than 'grammar'.
BankC(id) ==
  [category |-> IF id = 1 THEN "Vocabulary" ELSE "Grammar",
   correct_answer |-> AnswerKey(id)]

\* The pools the initial states draw: the first n questions of a bank.
Pools ==
  {[i \in 1..n |-> BankA(i)] : n \in 0..MaxPool}
    \cup {[i \in 1..n |-> BankB(i)] : n \in 0..MaxPool}
    \cup {[i \in 1..n |-> BankC(i)] : n \in 0..MaxPool}

\* Question.query.get(q_id): the row, or None.
HasQuestion(q_id) == q_id \in DOMAIN pool

\* Question.query.filter(func.lower(Question.category) == category_lower);
\* lower(NULL) is NULL and matches nothing.
MatchingIds(category_lower) ==
  {i \in DOMAIN pool :
     pool[i].category # NoVal /\ Lower(pool[i].category) = category_lower}

\* query.limit(limit).all() without ORDER BY: some `limit` of the matching
\* rows (all of them when there are fewer), listed in primary-key order.
LimitAll(ids, limit) ==
  {SortedSeq(S) : S \in {T \in SUBSET ids : Cardinality(T) = Min(limit, Cardinality(ids))}}

\* A get_questions that pads an under-filled list with the first question.
get_questions_padding(limit, category) ==
  LET ids == IF Truthy(category) THEN MatchingIds(Lower(category)) ELSE DOMAIN pool
  IN  {[i \in 1..limit |-> IF i <= Len(l) THEN l[i] ELSE 1] : l \in LimitAll(ids, limit)}

\* QuizRepository.fetch_questions_from_db: filter_by(category=category)
\* compares the stored text as it is.
fetch_questions_from_db(limit, category) ==
  IF Truthy(category)
  THEN LimitAll({i \in DOMAIN pool : pool[i].category = category}, limit)
  ELSE LimitAll(DOMAIN pool, limit)

\* QuizService.get_questions: the set of lists the query may return.
get_questions(limit, category) ==
  IF Truthy(category)
  THEN LimitAll(MatchingIds(Lower(category)), limit)
  ELSE LimitAll(DOMAIN pool, limit)

\* A check_questions_available whose message lists every category value.
check_questions_available_raw_categories(category) ==
  LET total_count == Len(pool)
  IN  IF total_count = 0
      THEN [available |-> FALSE, kind |-> "empty_pool", categories |-> {}]
      ELSE IF Truthy(category) /\ Cardinality(MatchingIds(Lower(category))) = 0
      THEN [available |-> FALSE, kind |-> "no_category",
            categories |-> {pool[i].category : i \in DOMAIN pool}]
      ELSE [available |-> TRUE, kind |-> "ok", categories |-> {}]

\* QuizService.check_questions_available: (available, message); the message
\* is kept as its kind and the categories it lists.
check_questions_available(category) ==
  LET total_count == Len(pool)
  IN  IF total_count = 0
      THEN [available |-> FALSE, kind |-> "empty_pool", categories |-> {}]
      ELSE IF Truthy(category) /\ Cardinality(MatchingIds(Lower(category))) = 0
      THEN [available |-> FALSE, kind |-> "no_category",
            categories |-> {pool[i].category : i \in {j \in DOMAIN pool : Truthy(pool[j].category)}}]
      ELSE [available |-> TRUE, kind |-> "ok", categories |-> {}]

\* ---------------------------------------------------------------- grading
\* user_answer.upper() == question.correct_answer.upper(); None has no
\* upper(): AttributeError.
UpperRaises(user_answer) == user_answer = NoVal

\* A check_answer that compares the labels as they were sent.
check_answer_case_sensitive(question_id, user_answer) ==
  IF ~HasQuestion(question_id) THEN [raised |-> FALSE, value |-> FALSE]
  ELSE IF UpperRaises(user_answer) THEN [raised |-> TRUE, value |-> FALSE]
  ELSE [raised |-> FALSE,
        value |-> user_answer = pool[question_id].correct_answer]

\* QuizService.check_answer: [raised, value].
check_answer(question_id, user_answer) ==
  IF ~HasQuestion(question_id) THEN [raised |-> FALSE, value |-> FALSE]
  ELSE IF UpperRaises(user_answer) THEN [raised |-> TRUE, value |-> FALSE]
  ELSE [raised |-> FALSE,
        value |-> Upper(user_answer) = Upper(pool[question_id].correct_answer)]

\* A percentage that rounds the ratio before scaling it.
Percentage_of_rounded_ratio(correct, total) == 1000 * RoundHalfEven(correct, total)

\* The one-decimal percentage round((correct / total) * 100, 1), in tenths.
Percentage(correct, total) == RoundHalfEven(1000 * correct, total)

\* A calculate_final_score that compares the labels as they were sent.
calculate_final_score_case_sensitive(question_ids, user_answers) ==
  LET total == Len(question_ids)
      graded == {i \in 1..total : question_ids[i] \in DOMAIN user_answers
                                  /\ HasQuestion(question_ids[i])}
      raises == \E i \in graded : UpperRaises(user_answers[question_ids[i]])
      correct == Cardinality({i \in graded :
                    user_answers[question_ids[i]]
                      = pool[question_ids[i]].correct_answer})
  IN  IF raises THEN [raised |-> TRUE, correct |-> 0, total |-> total, score |-> 0]
      ELSE [raised |-> FALSE, correct |-> correct, total |-> total,
            score |-> IF total > 0 THEN Percentage(correct, total) ELSE 0]

\* A calculate_final_score that refuses an empty list of selected ids.
calculate_final_score_rejecting_empty(question_ids, user_answers) ==
  LET total == Len(question_ids)
      graded == {i \in 1..total : question_ids[i] \in DOMAIN user_answers
                                  /\ HasQuestion(question_ids[i])}
      raises == \/ total = 0
                \/ \E i \in graded : UpperRaises(user_answers[question_ids[i]])
      correct == Cardinality({i \in graded :
                    Upper(user_answers[question_ids[i]])
                      = Upper(pool[question_ids[i]].correct_answer)})
  IN  IF raises THEN [raised |-> TRUE, correct |-> 0, total |-> total, score |-> 0]
      ELSE [raised |-> FALSE, correct |-> correct, total |-> total,
            score |-> Percentage(correct, total)]

\* QuizService.calculate_final_score: [raised, correct, total, score], the
\* score in tenths of a percent. user_answers maps question ids to labels.
calculate_final_score(question_ids, user_answers) ==
  LET total == Len(question_ids)
      graded == {i \in 1..total : question_ids[i] \in DOMAIN user_answers
                                  /\ HasQuestion(question_ids[i])}
      raises == \E i \in graded : UpperRaises(user_answers[question_ids[i]])
      correct == Cardinality({i \in graded :
                    Upper(user_answers[question_ids[i]])
                      = Upper(pool[question_ids[i]].correct_answer)})
  IN  IF raises THEN [raised |-> TRUE, correct |-> 0, total |-> total, score |-> 0]
      ELSE [raised |-> FALSE, correct |-> correct, total |-> total,
            score |-> IF total > 0 THEN Percentage(correct, total) ELSE 0]

\* ---------------------------------------------------------------- session
SessionKeys == {"quiz_started", "quiz_questions", "quiz_answers", "quiz_current",
                "quiz_category", "quiz_activity_id"}

\* A session holding none of the quiz keys; a field whose key is not in
\* `keys` holds the default that session.get returns for it.
NoSession ==
  [keys |-> {}, quiz_started |-> FALSE, quiz_questions |-> << >>,
   quiz_answers |-> << >>, quiz_current |-> 0, quiz_category |-> NoVal,
   quiz_activity_id |-> 0]

\* session.get('quiz_started')
Started(s) == "quiz_started" \in s.keys /\ s.quiz_started

\* A pop that resets the value and leaves the key in the session.
Pop_keeping_key(s, key) ==
  [NoSession EXCEPT
     !.keys = s.keys,
     !.quiz_started = IF key = "quiz_started" THEN FALSE ELSE s.quiz_started,
     !.quiz_questions = IF key = "quiz_questions" THEN << >> ELSE s.quiz_questions,
     !.quiz_answers = IF key = "quiz_answers" THEN << >> ELSE s.quiz_answers,
     !.quiz_current = IF key = "quiz_current" THEN 0 ELSE s.quiz_current,
     !.quiz_category = IF key = "quiz_category" THEN NoVal ELSE s.quiz_category,
     !.quiz_activity_id = IF key = "quiz_activity_id" THEN 0 ELSE s.quiz_activity_id]

\* session.pop(key, None)
Pop(s, key) ==
  [NoSession EXCEPT
     !.keys = s.keys \ {key},
     !.quiz_started = IF key = "quiz_started" THEN FALSE ELSE s.quiz_started,
     !.quiz_questions = IF key = "quiz_questions" THEN << >> ELSE s.quiz_questions,
     !.quiz_answers = IF key = "quiz_answers" THEN << >> ELSE s.quiz_answers,
     !.quiz_current = IF key = "quiz_current" THEN 0 ELSE s.quiz_current,
     !.quiz_category = IF key = "quiz_category" THEN NoVal ELSE s.quiz_category,
     !.quiz_activity_id = IF key = "quiz_activity_id" THEN 0 ELSE s.quiz_activity_id]

\* A clearing of the session that leaves quiz_started in place.
ClearSession_keeping_started(s) ==
  Pop(Pop(Pop(Pop(Pop(s, "quiz_questions"), "quiz_answers"),
          "quiz_current"), "quiz_activity_id"), "quiz_category")

\* The six session.pop calls that end submit_quiz and finish_quiz.
ClearSession(s) ==
  Pop(Pop(Pop(Pop(Pop(Pop(s, "quiz_started"), "quiz_questions"), "quiz_answers"),
              "quiz_current"), "quiz_activity_id"), "quiz_category")

\* The session writes that end a successful start_quiz.
StoreSession(s, question_ids, category, activity_id) ==
  [keys |-> s.keys \cup {"quiz_questions", "quiz_answers", "quiz_current",
                         "quiz_started", "quiz_category"}
              \cup (IF activity_id # 0 THEN {"quiz_activity_id"} ELSE {}),
   quiz_started |-> TRUE,
   quiz_questions |-> question_ids,
   quiz_answers |-> << >>,
   quiz_current |-> 0,
   quiz_category |-> category,
   quiz_activity_id |-> IF activity_id # 0 THEN activity_id ELSE s.quiz_activity_id]

\* ------------------------------------------------------------- activities
\* learning_activity rows; student_id 0 is NULL (assigned to nobody).
Activities ==
  << [title |-> "Unit 1 Quiz", activity_type |-> "QUIZ",
      quiz_category |-> "grammar", student_id |-> 0],
     [title |-> "Unit 2 Quiz", activity_type |-> "QUIZ",
      quiz_category |-> NoVal, student_id |-> OtherUser] >>

\* LearningActivity.query.get(activity_id) finds a row.
HasActivity(activity_id) == activity_id \in DOMAIN Activities

\* ----------------------------------------------------------- responses
NoResult == [correct |-> 0, total |-> 0, score |-> 0]

\* A request and its response.
Resp(op, status) ==
  [op |-> op, status |-> status, categories |-> {}, question_ids |-> << >>,
   answers |-> << >>, result |-> NoResult]

\* ------------------------------------------------------------ transaction
\* db.session of one request: the committed quiz tables and the rows added
\* or flushed inside the open transaction.
TxBegin ==
  [quizzes |-> quizzes, quiz_details |-> quiz_details,
   new_quizzes |-> {}, new_details |-> {}]

\* db.session.commit()
TxCommit(tx) ==
  [quizzes |-> tx.quizzes \cup tx.new_quizzes,
   quiz_details |-> tx.quiz_details \cup tx.new_details,
   new_quizzes |-> {}, new_details |-> {}]

\* The session is removed when the request ends (db.init_app registers the
\* teardown): whatever was not committed is rolled back.
TxTeardown(tx) == [tx EXCEPT !.new_quizzes = {}, !.new_details = {}]

\* Where a failure is injected into save_result.
FailPoints == {"none", "after_flush", "in_details", "at_commit"}

\* A save_result that commits the summary row where the code flushes it.
save_result_committing_at_flush(user_id, quiz_title, score, details, category, fail) ==
  LET new_quiz == [id |-> NextId(quizzes), user_id |-> user_id,
                   quiz_title |-> quiz_title, score |-> score,
                   category |-> category, date_taken |-> today]
      tx1 == TxCommit([TxBegin EXCEPT !.new_quizzes = {new_quiz}])
      added == CASE fail = "after_flush" -> 0
                 [] fail = "in_details" -> Min(1, Len(details))
                 [] OTHER -> Len(details)
      first == NextId(quiz_details)
      tx2 == [tx1 EXCEPT !.new_details =
                {[id |-> first + i - 1, quiz_id |-> new_quiz.id,
                  question_text |-> details[i].question_text,
                  user_answer |-> details[i].user_answer,
                  correct_answer |-> details[i].correct_answer,
                  is_correct |-> details[i].is_correct] : i \in 1..added}]
  IN  IF fail = "none"
      THEN [raised |-> FALSE, tx |-> TxCommit(tx2)]
      ELSE [raised |-> TRUE, tx |-> tx2]

\* QuizService.save_result: [raised, tx]. details is a sequence of
\* [question_text, user_answer, correct_answer, is_correct].
save_result(user_id, quiz_title, score, details, category, fail) ==
  LET new_quiz == [id |-> NextId(quizzes), user_id |-> user_id,
                   quiz_title |-> quiz_title, score |-> score,
                   category |-> category, date_taken |-> today]
      \* add + flush: the row has its id, inside the open transaction
      tx1 == [TxBegin EXCEPT !.new_quizzes = {new_quiz}]
      added == CASE fail = "after_flush" -> 0
                 [] fail = "in_details" -> Min(1, Len(details))
                 [] OTHER -> Len(details)
      first == NextId(quiz_details)
      tx2 == [tx1 EXCEPT !.new_details =
                {[id |-> first + i - 1, quiz_id |-> new_quiz.id,
                  question_text |-> details[i].question_text,
                  user_answer |-> details[i].user_answer,
                  correct_answer |-> details[i].correct_answer,
                  is_correct |-> details[i].is_correct] : i \in 1..added}]
  IN  IF fail = "none"
      THEN [raised |-> FALSE, tx |-> TxCommit(tx2)]
      ELSE [raised |-> TRUE, tx |-> tx2]

\* ------------------------------------------------------------ quiz result
\* category_titles.get(quiz_category.lower(), 'Quiz')
CategoryTitle(quiz_category) ==
  CASE Lower(quiz_category) = "grammar" -> "Grammar Quiz"
    [] Lower(quiz_category) = "vocabulary" -> "Vocabulary Quiz"
    [] Lower(quiz_category) = "reading" -> "Reading Quiz"
    [] Lower(quiz_category) = "mixed" -> "Mixed Quiz"
    [] OTHER -> "Quiz"

\* The category of the result before the assignment block: the session's,
\* else the first selected question's in lower case, else 'grammar'.
ResultCategory(s) ==
  LET question_ids == s.quiz_questions
      inferred ==
        IF s.quiz_category = NoVal /\ Len(question_ids) > 0
           /\ HasQuestion(question_ids[1])
           /\ Truthy(pool[question_ids[1]].category)
        THEN Lower(pool[question_ids[1]].category)
        ELSE s.quiz_category
  IN  IF Truthy(inferred) THEN inferred ELSE "grammar"

\* The activity the session names, when it exists (0: none).
SessionActivity(s) ==
  IF s.quiz_activity_id # 0 /\ HasActivity(s.quiz_activity_id)
  THEN s.quiz_activity_id ELSE 0

\* quiz_title and quiz_category handed to save_result.
ResultTitle(s) ==
  IF SessionActivity(s) # 0 THEN Activities[SessionActivity(s)].title
  ELSE CategoryTitle(ResultCategory(s))

ResultCategoryFinal(s) ==
  IF SessionActivity(s) # 0 /\ Truthy(Activities[SessionActivity(s)].quiz_category)
  THEN Activities[SessionActivity(s)].quiz_category
  ELSE ResultCategory(s)

\* An is_correct that compares the labels as they were sent.
IsCorrect_case_sensitive(q_id, user_answer) ==
  /\ Truthy(user_answer)
  /\ HasQuestion(q_id)
  /\ user_answer = pool[q_id].correct_answer

\* is_correct = user_answer and question and
\*              user_answer.upper() == correct_answer.upper(), as a truth value.
IsCorrect(q_id, user_answer) ==
  /\ Truthy(user_answer)
  /\ HasQuestion(q_id)
  /\ Upper(user_answer) = Upper(pool[q_id].correct_answer)

\* The per-question details both handlers build; default is what
\* answers.get returns for a missing key ('' in submit_quiz, None in
\* finish_quiz). The question text is kept as the question's id.
BuildDetails(question_ids, answers, default) ==
  [i \in 1..Len(question_ids) |->
     LET q_id == question_ids[i]
         user_answer == IF q_id \in DOMAIN answers THEN answers[q_id] ELSE default
     IN  [question_text |-> q_id,
          user_answer |-> user_answer,
          correct_answer |-> IF HasQuestion(q_id) THEN pool[q_id].correct_answer ELSE NoVal,
          is_correct |-> IsCorrect(q_id, user_answer)]]

\* The assignment block: one QUIZ Submission and its auto-approved Grade,
\* committed before save_result runs.
AssignmentRows(s, res) ==
  IF SessionActivity(s) = 0
  THEN [submissions |-> submissions, grades |-> grades]
  ELSE LET new_sub == [id |-> NextId(submissions), student_id |-> CurrentUser,
                       activity_id |-> SessionActivity(s),
                       submission_type |-> "QUIZ", created_at |-> today]
           new_grade == [id |-> NextId(grades), submission_id |-> new_sub.id,
                         score |-> res.score,
                         general_feedback |-> [correct |-> res.correct,
                                               total |-> res.total],
                         pronunciation_score |-> NoScore,
                         fluency_score |-> NoScore,
                         instructor_approved |-> TRUE]
       IN  [submissions |-> submissions \cup {new_sub},
            grades |-> grades \cup {new_grade}]

\* GoalService.update_goal_progress(user_id, 'Quiz') over the quiz rows qs:
\* the average is kept exact as [sum of scores, number of quizzes].
update_goal_progress(user_id, qs) ==
  LET mine == {q \in qs : q.user_id = user_id}
      RECURSIVE Sum(_)
      Sum(S) == IF S = {} THEN 0
                ELSE LET q == CHOOSE x \in S : TRUE IN q.score + Sum(S \ {q})
      avg == IF mine = {} THEN [sum |-> 0, n |-> 1]
             ELSE [sum |-> Sum(mine), n |-> Cardinality(mine)]
      Active(g) == g.user_id = user_id /\ g.category = "Quiz"
                   /\ g.status = "In Progress"
  IN  {IF Active(g)
       THEN [g EXCEPT !.current_score = avg,
                      !.status = IF avg.sum >= g.target_score * avg.n
                                 THEN "Completed" ELSE g.status]
       ELSE g : g \in goals}

\* ----------------------------------------------------------------- inputs
\* The category field of the start form (NoVal: the field is missing).
FormCategories == {NoVal, "", " ", "mixed", "grammar", "reading"}

\* The requests /quiz/start may receive: a GET carries no form.
StartRequests ==
  {[method |-> "GET", category |-> NoVal]}
    \cup {[method |-> "POST", category |-> c] : c \in FormCategories}

\* activity_id query argument of /quiz/start (0: none).
ActivityArgs == 0..Len(Activities)

\* Labels a client may send for one question (NoVal: JSON null).
AnswerLabels == {"a", NoVal}

\* The answers objects a client may send for the selected questions.
AnswerMaps(question_ids) ==
  UNION {[D -> AnswerLabels] : D \in SUBSET Range(question_ids)}

\* ---------------------------------------------------------------- handlers
\* A start_quiz that drops the quiz session when it fails.
start_quiz_resetting(method, form_category, activity_id) ==
  LET posted == IF method = "POST"
                THEN IF Truthy(form_category) /\ Strip(form_category) = ""
                     THEN NoVal ELSE form_category
                ELSE NoVal
      activity_found == activity_id # 0 /\ HasActivity(activity_id)
      denied == /\ activity_found
                /\ Activities[activity_id].student_id # 0
                /\ Activities[activity_id].student_id # CurrentUser
      category == IF activity_found /\ Activities[activity_id].activity_type = "QUIZ"
                  THEN Activities[activity_id].quiz_category
                  ELSE posted
      check == check_questions_available(category)
      question_category == IF category = "mixed" THEN NoVal ELSE category
  IN  /\ UNCHANGED << pool, db >>
      /\ IF denied
         THEN /\ last' = Resp("start_quiz", "denied")
              /\ session' = NoSession
              /\ UNCHANGED session_results
         ELSE IF ~check.available
         THEN /\ last' = [Resp("start_quiz", check.kind) EXCEPT
                            !.categories = check.categories]
              /\ session' = NoSession
              /\ UNCHANGED session_results
         ELSE \E questions \in get_questions(QuizLimit, question_category) :
                IF questions = << >>
                THEN /\ last' = Resp("start_quiz", "no_questions_found")
                     /\ session' = NoSession
                     /\ UNCHANGED session_results
                ELSE /\ session' = StoreSession(session, questions, category, activity_id)
                     /\ session_results' = 0
                     /\ last' = Resp("start_quiz", "ok")

\* POST or GET /quiz/start
start_quiz(method, form_category, activity_id) ==
  LET posted == IF method = "POST"
                THEN IF Truthy(form_category) /\ Strip(form_category) = ""
                     THEN NoVal ELSE form_category
                ELSE NoVal
      activity_found == activity_id # 0 /\ HasActivity(activity_id)
      denied == /\ activity_found
                /\ Activities[activity_id].student_id # 0
                /\ Activities[activity_id].student_id # CurrentUser
      category == IF activity_found /\ Activities[activity_id].activity_type = "QUIZ"
                  THEN Activities[activity_id].quiz_category
                  ELSE posted
      check == check_questions_available(category)
      question_category == IF category = "mixed" THEN NoVal ELSE category
  IN  /\ UNCHANGED << pool, db >>
      /\ IF denied
         THEN /\ last' = Resp("start_quiz", "denied")
              /\ UNCHANGED << session, session_results >>
         ELSE IF ~check.available
         THEN /\ last' = [Resp("start_quiz", check.kind) EXCEPT
                            !.categories = check.categories]
              /\ UNCHANGED << session, session_results >>
         ELSE \E questions \in get_questions(QuizLimit, question_category) :
                IF questions = << >>
                THEN /\ last' = Resp("start_quiz", "no_questions_found")
                     /\ UNCHANGED << session, session_results >>
                ELSE /\ session' = StoreSession(session, questions, category, activity_id)
                     /\ session_results' = 0
                     /\ last' = Resp("start_quiz", "ok")

\* GET /quiz/question
quiz_question ==
  /\ last' = Resp("quiz_question", IF Started(session) THEN "ok" ELSE "no_quiz")
  /\ UNCHANGED << pool, db, session, session_results >>

\* GET /quiz/questions
get_quiz_questions ==
  /\ last' = IF Started(session)
             THEN [Resp("get_quiz_questions", "ok") EXCEPT
                     !.question_ids = SelectSeq(session.quiz_questions, HasQuestion)]
             ELSE Resp("get_quiz_questions", "no_quiz")
  /\ UNCHANGED << pool, db, session, session_results >>

\* What submit_quiz and finish_quiz do once the score is computed: the
\* assignment block, save_result, then the goal update (finish_quiz only)
\* and the clearing of the session.
Complete(op, answers, details, res, fail, with_goals) ==
  LET rows == AssignmentRows(session, res)
      saved == save_result(CurrentUser, ResultTitle(session), res.score,
                           details, ResultCategoryFinal(session), fail)
      tx == IF saved.raised THEN TxTeardown(saved.tx) ELSE saved.tx
      done == [Resp(op, "ok") EXCEPT
                 !.question_ids = session.quiz_questions,
                 !.answers = answers,
                 !.result = [correct |-> res.correct, total |-> res.total,
                             score |-> res.score]]
  IN  /\ Cardinality(quizzes) < MaxQuizzes
      /\ Cardinality(rows.submissions) <= MaxSubs
      /\ submissions' = rows.submissions
      /\ grades' = rows.grades
      /\ quizzes' = tx.quizzes
      /\ quiz_details' = tx.quiz_details
      /\ IF saved.raised
         THEN /\ last' = Resp(op, "db_error")
              /\ UNCHANGED << session, goals, session_results >>
         ELSE /\ goals' = IF with_goals
                          THEN update_goal_progress(CurrentUser, tx.quizzes)
                          ELSE goals
              /\ session' = ClearSession(session)
              /\ session_results' = session_results + 1
              /\ last' = done

\* POST /quiz/submit
submit_quiz(answers, fail) ==
  /\ UNCHANGED pool
  /\ IF ~Started(session)
     THEN /\ last' = Resp("submit_quiz", "no_quiz")
          /\ UNCHANGED << db, session, session_results >>
     ELSE LET question_ids == session.quiz_questions
              answers_dict == [q \in Range(question_ids) |->
                                 IF q \in DOMAIN answers THEN answers[q] ELSE ""]
              res == calculate_final_score(question_ids, answers_dict)
          IN  IF res.raised
              THEN /\ last' = Resp("submit_quiz", "error")
                   /\ UNCHANGED << db, session, session_results >>
              ELSE Complete("submit_quiz", answers,
                            BuildDetails(question_ids, answers, ""), res, fail, FALSE)

\* GET or POST /quiz/finish
finish_quiz(fail) ==
  /\ UNCHANGED pool
  /\ IF ~Started(session)
     THEN /\ last' = Resp("finish_quiz", "no_quiz")
          /\ UNCHANGED << db, session, session_results >>
     ELSE LET question_ids == session.quiz_questions
              answers == session.quiz_answers
              res == calculate_final_score(question_ids, answers)
          IN  IF res.raised
              THEN /\ last' = Resp("finish_quiz", "error")
                   /\ UNCHANGED << db, session, session_results >>
              ELSE Complete("finish_quiz", answers,
                            BuildDetails(question_ids, answers, NoVal), res, fail, TRUE)

\* The response of a request that names a quiz result: Resp and the id.
QuizResp(op, status, quiz_id) ==
  [op |-> op, status |-> status, categories |-> {}, question_ids |-> << >>,
   answers |-> << >>, result |-> NoResult, quiz_id |-> quiz_id]

\* QuizDetail.query.filter_by(quiz_id=quiz_id).all()
DetailsOf(quiz_id) == {d \in quiz_details : d.quiz_id = quiz_id}

\* A review that retitles the result it shows.
quiz_review_retitling(quiz_id) ==
  /\ \E quiz \in quizzes : quiz.id = quiz_id
  /\ LET quiz == CHOOSE q \in quizzes : q.id = quiz_id
         total == Cardinality(DetailsOf(quiz_id))
         correct == Cardinality({d \in DetailsOf(quiz_id) : d.is_correct})
         score == IF total > 0 THEN Percentage(correct, total) ELSE 0
     IN  /\ quizzes' = (quizzes \ {quiz}) \cup {[quiz EXCEPT !.quiz_title = "Reviewed"]}
         /\ last' = [QuizResp("quiz_review", "ok", quiz_id) EXCEPT
                       !.result = [correct |-> correct, total |-> total, score |-> score]]
  /\ UNCHANGED << pool, quiz_details, submissions, grades, goals, session,
                  session_results >>

\* GET /quiz/review/<quiz_id>, asked by the student: the stored score and
\* correct/total counted over the stored details.
quiz_review(quiz_id) ==
  /\ IF ~(\E quiz \in quizzes : quiz.id = quiz_id)
     THEN last' = QuizResp("quiz_review", "not_found", quiz_id)
     ELSE LET quiz == CHOOSE q \in quizzes : q.id = quiz_id
              details_rows == DetailsOf(quiz.id)
          IN  IF quiz.user_id # CurrentUser
              THEN last' = QuizResp("quiz_review", "denied", quiz_id)
              ELSE last' = [QuizResp("quiz_review", "ok", quiz_id) EXCEPT
                              !.result = [correct |-> Cardinality({d \in details_rows :
                                                                    d.is_correct}),
                                          total |-> Cardinality(details_rows),
                                          score |-> quiz.score]]
  /\ UNCHANGED << pool, db, session, session_results >>

\* GET /quiz/result?score=&correct=&total=: the figures of the query string
\* and, when total > 0, the details of the student's most recent result
\* (any of them when several share the latest date_taken).
quiz_result(score, correct, total) ==
  LET mine == {q \in quizzes : q.user_id = CurrentUser}
      recent == {q \in mine : \A r \in mine : r.date_taken <= q.date_taken}
      shown == [correct |-> correct, total |-> total, score |-> score]
  IN  /\ IF total > 0 /\ recent # {}
         THEN \E recent_quiz \in recent :
                last' = [QuizResp("quiz_result", "ok", recent_quiz.id) EXCEPT
                           !.result = shown]
         ELSE last' = [QuizResp("quiz_result", "ok", 0) EXCEPT !.result = shown]
      /\ UNCHANGED << pool, db, session, session_results >>

\* A delete_quiz that removes the row and leaves its details.
delete_quiz_leaving_details(quiz_id, fail) ==
  /\ \E quiz \in quizzes : quiz.id = quiz_id /\ quiz.user_id = CurrentUser
  /\ quizzes' = {q \in quizzes : q.id # quiz_id}
  /\ last' = QuizResp("delete_quiz", "ok", quiz_id)
  /\ UNCHANGED << pool, quiz_details, submissions, grades, goals, session,
                  session_results >>

\* POST /delete_quiz/<quiz_id>; fail: the deletion raises and is rolled back.
delete_quiz(quiz_id, fail) ==
  IF ~(\E quiz \in quizzes : quiz.id = quiz_id)
  THEN /\ last' = QuizResp("delete_quiz", "not_found", quiz_id)
       /\ UNCHANGED << pool, db, session, session_results >>
  ELSE LET quiz == CHOOSE q \in quizzes : q.id = quiz_id
       IN  IF quiz.user_id # CurrentUser
           THEN /\ last' = QuizResp("delete_quiz", "denied", quiz_id)
                /\ UNCHANGED << pool, db, session, session_results >>
           ELSE IF fail
           THEN /\ last' = QuizResp("delete_quiz", "db_error", quiz_id)
                /\ UNCHANGED << pool, db, session, session_results >>
           ELSE /\ quiz_details' = quiz_details \ DetailsOf(quiz.id)
                /\ quizzes' = quizzes \ {quiz}
                /\ last' = QuizResp("delete_quiz", "ok", quiz_id)
                /\ UNCHANGED << pool, submissions, grades, goals, session,
                                session_results >>

\* ------------------------------------------------------------- statistics
\* sub.grade: the grade row of a submission (uselist=False), if any.
HasGrade(sub) == \E g \in grades : g.submission_id = sub.id

GradeOf(sub) == CHOOSE g \in grades : g.submission_id = sub.id

\* Python truthiness of an optional number: None and 0 are falsy.
TruthyNum(x) == x # NoScore /\ x # 0

RECURSIVE SumFn(_)
\* sum(f.values())
SumFn(f) ==
  IF DOMAIN f = {} THEN 0
  ELSE LET x == CHOOSE y \in DOMAIN f : TRUE
       IN  f[x] + SumFn([y \in DOMAIN f \ {x} |-> f[y]])

\* (pronunciation_score + fluency_score) / 2 of a submission, doubled.
SpeakingTwice(sub) == GradeOf(sub).pronunciation_score + GradeOf(sub).fluency_score

SubScore(sub) == GradeOf(sub).score

QuizScore(q) == q.score

\* [s for s in submissions if s.submission_type == kind and s.grade]
GradedSubs(student_id, kind) ==
  {s \in submissions : s.student_id = student_id /\ s.submission_type = kind
                       /\ HasGrade(s)}

\* The speaking submissions the overall score averages: the test is the
\* truth value of both sub-scores.
SpeakingAveraged(student_id) ==
  {s \in GradedSubs(student_id, "SPEAKING") :
     TruthyNum(GradeOf(s).pronunciation_score) /\ TruthyNum(GradeOf(s).fluency_score)}

\* Speaking submissions taken by the truth value of both sub-scores.
SpeakingCharted_by_truth_value(student_id) ==
  {s \in GradedSubs(student_id, "SPEAKING") :
     TruthyNum(GradeOf(s).pronunciation_score) /\ TruthyNum(GradeOf(s).fluency_score)}

\* The speaking submissions the per-date series takes: both sub-scores
\* `is not None`.
SpeakingCharted(student_id) ==
  {s \in GradedSubs(student_id, "SPEAKING") :
     GradeOf(s).pronunciation_score # NoScore /\ GradeOf(s).fluency_score # NoScore}

\* An average that divides by den only, not by the number of scores.
Average_undivided(f, den) ==
  IF DOMAIN f = {} THEN 0
  ELSE RoundHalfEven(SumFn(f), den)

\* An average that is NULL when there is no score to average.
Average_null_when_empty(f, den) ==
  IF DOMAIN f = {} THEN NoScore
  ELSE RoundHalfEven(SumFn(f), den * Cardinality(DOMAIN f))

\* round(sum(scores) / len(scores), 1) if scores else 0.0, in tenths;
\* the scores are the values of f, each divided by den.
Average(f, den) ==
  IF DOMAIN f = {} THEN 0
  ELSE RoundHalfEven(SumFn(f), den * Cardinality(DOMAIN f))

\* The scores the three kinds of average are taken over.
SpeakingScores(S) == [s \in S |-> SpeakingTwice(s)]

SubScores(S) == [s \in S |-> SubScore(s)]

QuizScores(S) == [q \in S |-> QuizScore(q)]

\* The four area scores, computed alike by the dashboard route and by
\* StatsService.get_dashboard_data.
AreaScores(student_id) ==
  [speaking_score |-> Average(SpeakingScores(SpeakingAveraged(student_id)), 2),
   writing_score |-> Average(SubScores(GradedSubs(student_id, "WRITING")), 1),
   handwritten_score |-> Average(SubScores(GradedSubs(student_id, "HANDWRITTEN")), 1),
   quiz_score |-> Average(QuizScores({q \in quizzes : q.user_id = student_id}), 1)]

\* date.strftime('%d %b'): day and month, without the year.
DayLabel(date) == ((date - 1) % DaysPerYear) + 1

\* The chart of the dashboard route: the sorted dates that have an
\* observation and, per kind, the same-day average or 0.
ChartData(student_id) ==
  LET speaking == SpeakingCharted(student_id)
      writing == GradedSubs(student_id, "WRITING")
      handwritten == GradedSubs(student_id, "HANDWRITTEN")
      quiz == {q \in quizzes : q.user_id = student_id}
      all_dates == {s.created_at : s \in speaking \cup writing \cup handwritten}
                     \cup {q.date_taken : q \in quiz}
      sorted_dates == SortedSeq(all_dates)
      On(S, d) == {s \in S : s.created_at = d}
      Taken(d) == {q \in quiz : q.date_taken = d}
  IN  [sorted_dates |-> sorted_dates,
       dates |-> [i \in DOMAIN sorted_dates |-> DayLabel(sorted_dates[i])],
       speaking_scores |-> [i \in DOMAIN sorted_dates |->
                              Average(SpeakingScores(On(speaking, sorted_dates[i])), 2)],
       writing_scores |-> [i \in DOMAIN sorted_dates |->
                             Average(SubScores(On(writing, sorted_dates[i])), 1)],
       handwritten_scores |-> [i \in DOMAIN sorted_dates |->
                                 Average(SubScores(On(handwritten, sorted_dates[i])), 1)],
       quiz_scores |-> [i \in DOMAIN sorted_dates |->
                          Average(QuizScores(Taken(sorted_dates[i])), 1)]]

\* The keys of area_scores, in the order the dict is written.
AreaOrder == << "Speaking", "Writing", "Quiz", "Handwritten" >>

\* area_scores[area]
AreaScoreOf(scores, area) ==
  CASE area = "Speaking" -> scores.speaking_score
    [] area = "Writing" -> scores.writing_score
    [] area = "Quiz" -> scores.quiz_score
    [] OTHER -> scores.handwritten_score

\* A filter that keeps every area, the zero ones too.
NonZeroAreas_keeping_zeros(scores) == DOMAIN AreaOrder

\* non_zero_scores: the positions in AreaOrder of the areas with v > 0.
NonZeroAreas(scores) ==
  {i \in DOMAIN AreaOrder : AreaScoreOf(scores, AreaOrder[i]) > 0}

\* The strongest and the weakest area of the dashboard, with the defaults
\* it shows when every score is zero. max(d, key=d.get) and min(d, key=d.get)
\* return the first key, in the order of the dict, whose value is the largest
\* (the smallest).
StrongestWeakest(scores) ==
  LET nz == NonZeroAreas(scores)
      v(i) == AreaScoreOf(scores, AreaOrder[i])
      strongest == CHOOSE i \in nz :
                     /\ \A j \in nz : v(j) <= v(i)
                     /\ \A j \in nz : v(j) = v(i) => i <= j
      weakest == CHOOSE i \in nz :
                   /\ \A j \in nz : v(i) <= v(j)
                   /\ \A j \in nz : v(j) = v(i) => i <= j
  IN  IF nz # {}
      THEN [strongest_area |-> AreaOrder[strongest], strongest_score |-> v(strongest),
            weakest_area |-> AreaOrder[weakest], weakest_score |-> v(weakest)]
      ELSE [strongest_area |-> "Speaking", strongest_score |-> 0,
            weakest_area |-> "Handwritten", weakest_score |-> 0]

\* A recommendation that looks at the quiz count before the two scores.
recommended_next_quiz_first(has_speaking, has_writing, speaking_score, writing_score, completed_quizzes) ==
  IF ~has_speaking THEN "Improve Your Speaking"
  ELSE IF ~has_writing THEN "Improve Your Writing"
  ELSE IF completed_quizzes = 0 THEN "Take a Quiz"
  ELSE IF speaking_score < 700 THEN "Improve Your Speaking"
  ELSE IF writing_score < 700 THEN "Improve Your Writing"
  ELSE "Start Your First Activity"

\* The recommended next step of the dashboard; the scores are in tenths.
recommended_next(has_speaking, has_writing, speaking_score, writing_score, completed_quizzes) ==
  IF ~has_speaking THEN "Improve Your Speaking"
  ELSE IF ~has_writing THEN "Improve Your Writing"
  ELSE IF speaking_score < 700 THEN "Improve Your Speaking"
  ELSE IF writing_score < 700 THEN "Improve Your Writing"
  ELSE IF completed_quizzes = 0 THEN "Take a Quiz"
  ELSE "Start Your First Activity"

\* No dashboard has been computed yet.
NoDash == [op |-> "none"]

\* GET /dashboard, for the student.
dashboard ==
  /\ dash' = [op |-> "dashboard", scores |-> AreaScores(CurrentUser),
              chart_data |-> ChartData(CurrentUser),
              insights |-> StrongestWeakest(AreaScores(CurrentUser)),
              recommended_next |->
                recommended_next(GradedSubs(CurrentUser, "SPEAKING") # {},
                                 GradedSubs(CurrentUser, "WRITING") # {},
                                 AreaScores(CurrentUser).speaking_score,
                                 AreaScores(CurrentUser).writing_score,
                                 Cardinality({q \in quizzes : q.user_id = CurrentUser}))]
  /\ UNCHANGED << pool, db, session, last, session_results, today, inflight >>

\* A window that ends the day before today.
last_7_days_before_today == [i \in 1..WindowDays |-> today - (WindowDays - i) - 1]

\* [today - timedelta(days=i) for i in range(6, -1, -1)]
last_7_days == [i \in 1..WindowDays |-> today - (WindowDays - i)]

\* Sparkline arrays whose last one counts the submissions of the day.
sparkline_data_counting_rows ==
  LET days == last_7_days
      On(d) == {s \in submissions : s.created_at = d /\ d \in Range(days)}
  IN  [submissions |-> [i \in DOMAIN days |-> Cardinality(On(days[i]))],
       pending |-> [i \in DOMAIN days |->
                      Cardinality({s \in On(days[i]) : ~HasGrade(s)})],
       class_avg |-> [i \in DOMAIN days |->
                        Average(SubScores({s \in On(days[i]) : HasGrade(s)}), 1)],
       active_students |-> [i \in DOMAIN days |-> Cardinality(On(days[i]))]]

\* The four sparkline arrays: per day of the window, the submissions created
\* that day, those without a grade, the average grade and the students.
sparkline_data ==
  LET days == last_7_days
      On(d) == {s \in submissions : s.created_at = d /\ d \in Range(days)}
  IN  [submissions |-> [i \in DOMAIN days |-> Cardinality(On(days[i]))],
       pending |-> [i \in DOMAIN days |->
                      Cardinality({s \in On(days[i]) : ~HasGrade(s)})],
       class_avg |-> [i \in DOMAIN days |->
                        Average(SubScores({s \in On(days[i]) : HasGrade(s)}), 1)],
       active_students |-> [i \in DOMAIN days |->
                              Cardinality({s.student_id : s \in On(days[i])})]]

\* GET /instructor/dashboard
instructor_dashboard ==
  LET graded_subs == {s \in submissions : HasGrade(s)}
  IN  /\ dash' = [op |-> "instructor_dashboard",
                  class_avg |-> Average(SubScores(graded_subs), 1),
                  active_count |-> Cardinality({s.student_id : s \in submissions}),
                  pending_count |-> Cardinality(submissions) - Cardinality(graded_subs),
                  grade_high |-> Cardinality({s \in graded_subs : SubScore(s) >= 750}),
                  grade_mid |-> Cardinality({s \in graded_subs :
                                               500 <= SubScore(s) /\ SubScore(s) < 750}),
                  grade_low |-> Cardinality({s \in graded_subs : SubScore(s) < 500}),
                  last_7_days |-> last_7_days,
                  sparkline_data |-> sparkline_data]
      /\ UNCHANGED << pool, db, session, last, session_results, today, inflight >>

\* StatsService.get_dashboard_data(student_id)
get_dashboard_data(student_id) ==
  /\ dash' = [op |-> "get_dashboard_data", student_id |-> student_id,
              scores |-> AreaScores(student_id),
              total_submissions |->
                Cardinality({s \in submissions : s.student_id = student_id}),
              completed_quizzes |->
                Cardinality({q \in quizzes : q.user_id = student_id})]
  /\ UNCHANGED << pool, db, session, last, session_results, today, inflight >>

\* ------------------------------------------------------------ specification
\* The learning goal the student has set before taking quizzes: reach an
\* average quiz score of 50.0 (scores are kept in tenths).
InitialGoals ==
  {[id |-> 1, user_id |-> CurrentUser, category |-> "Quiz",
    status |-> "In Progress", target_score |-> 500,
    current_score |-> [sum |-> 0, n |-> 1]]}

Init ==
  /\ pool \in Pools
  /\ session = NoSession
  /\ quizzes = {}
  /\ quiz_details = {}
  /\ submissions = {}
  /\ grades = {}
  /\ goals = InitialGoals
  /\ last = Resp("init", "ok")
  /\ session_results = 0
  /\ today = FirstDay
  /\ dash = NoDash
  /\ inflight = << >>

StartQuiz ==
  /\ \E req \in StartRequests, activity_id \in ActivityArgs :
       start_quiz(req.method, req.category, activity_id)
  /\ UNCHANGED << today, dash, inflight >>

QuizQuestion == quiz_question /\ UNCHANGED << today, dash, inflight >>

GetQuizQuestions == get_quiz_questions /\ UNCHANGED << today, dash, inflight >>

SubmitQuiz ==
  /\ \E answers \in AnswerMaps(session.quiz_questions), fail \in FailPoints :
       submit_quiz(answers, fail)
  /\ UNCHANGED << today, dash, inflight >>

FinishQuiz ==
  /\ \E fail \in FailPoints : finish_quiz(fail)
  /\ UNCHANGED << today, dash, inflight >>

Next ==
  \/ StartQuiz
  \/ QuizQuestion
  \/ GetQuizQuestions
  \/ SubmitQuiz
  \/ FinishQuiz

Spec == Init /\ [][Next]_vars

\* ------------------------------------------- quiz routes and stored results
\* The results stored before the student's first request: none, or one of
\* a classmate, with the details of its two questions.
StoredResults ==
  {[quizzes |-> {}, quiz_details |-> {}],
   [quizzes |-> {[id |-> 1, user_id |-> OtherUser, quiz_title |-> "Grammar Quiz",
                  score |-> 500, category |-> "grammar", date_taken |-> FirstDay]},
    quiz_details |-> {[id |-> i, quiz_id |-> 1, question_text |-> i,
                       user_answer |-> "A", correct_answer |-> AnswerKey(i),
                       is_correct |-> ("A" = AnswerKey(i))] : i \in 1..2}]}

\* The pool the results are made over: the first bank, whole.
ResultPools == {[i \in 1..MaxPool |-> BankA(i)]}

InitResults ==
  /\ pool \in ResultPools
  /\ session = NoSession
  /\ \E stored \in StoredResults :
       /\ quizzes = stored.quizzes
       /\ quiz_details = stored.quiz_details
  /\ submissions = {}
  /\ grades = {}
  /\ goals = InitialGoals
  /\ last = Resp("init", "ok")
  /\ session_results = 0
  /\ today = FirstDay
  /\ dash = NoDash
  /\ inflight = << >>

\* The starts the stored results are made by: a quiz over any category or
\* over 'grammar', not begun from an assignment.
PlainStarts ==
  {[method |-> "GET", category |-> NoVal], [method |-> "POST", category |-> "grammar"]}

StartPlainQuiz ==
  /\ \E req \in PlainStarts : start_quiz(req.method, req.category, 0)
  /\ UNCHANGED << today, dash, inflight >>

\* The quiz ids a request may name: those given so far and the next one.
QuizIdArgs == 1..(MaxQuizzes + 1)

QuizReview ==
  /\ \E quiz_id \in QuizIdArgs : quiz_review(quiz_id)
  /\ UNCHANGED << today, dash, inflight >>

\* The query string repeats what submit_quiz answered, or is made up.
QuizResult ==
  /\ \E total \in 0..1 : quiz_result(0, 0, total)
  /\ UNCHANGED << today, dash, inflight >>

\* Results are deleted while the ids given stay within MaxQuizzes.
DeleteQuiz ==
  /\ \A q \in quizzes : q.id <= MaxQuizzes
  /\ \E quiz_id \in QuizIdArgs, fail \in BOOLEAN : delete_quiz(quiz_id, fail)
  /\ UNCHANGED << today, dash, inflight >>

NextResults ==
  \/ StartPlainQuiz
  \/ SubmitQuiz
  \/ FinishQuiz
  \/ QuizReview
  \/ QuizResult
  \/ DeleteQuiz

SpecResults == InitResults /\ [][NextResults]_vars

\* ------------------------------------------- completions processed concurrently
\* The Flask session is a signed cookie the browser holds: `session` is the
\* browser's copy, each request works on the copy it arrived with, and a
\* response that modified its copy replaces the browser's. The development
\* server handles requests in threads, each with its own db.session.

\* The quiz is started while no completion request is under way, from an
\* assignment or not.
StartBeforeCompletions ==
  /\ inflight = << >>
  /\ \E activity_id \in 0..1 : start_quiz("GET", NoVal, activity_id)
  /\ UNCHANGED << today, dash, inflight >>

\* A submit_quiz or finish_quiz request arrives with the browser's cookie
\* and passes, or not, `if not session.get('quiz_started')`.
ReceiveCompletion ==
  /\ Len(inflight) < MaxRequests
  /\ \E op \in {"submit_quiz", "finish_quiz"}, fail \in {"none", "at_commit"} :
       inflight' = Append(inflight,
                          [op |-> op, fail |-> fail, cookie |-> session,
                           pc |-> IF Started(session) THEN "started" ELSE "refused"])
  /\ UNCHANGED << pool, db, session, last, session_results, today, dash >>

\* The request computes the score over its cookie's questions, with every
\* question answered 'a', and runs the assignment block and save_result.
PersistCompletion ==
  \E r \in DOMAIN inflight :
    LET req == inflight[r]
        question_ids == req.cookie.quiz_questions
        answers == [q \in Range(question_ids) |-> "a"]
        res == calculate_final_score(question_ids, answers)
        rows == AssignmentRows(req.cookie, res)
        saved == save_result(CurrentUser, ResultTitle(req.cookie), res.score,
                             BuildDetails(question_ids, answers, ""),
                             ResultCategoryFinal(req.cookie), req.fail)
        tx == IF saved.raised THEN TxTeardown(saved.tx) ELSE saved.tx
    IN  /\ req.pc = "started"
        /\ Cardinality(quizzes) < MaxQuizzes
        /\ Cardinality(rows.submissions) <= MaxSubs
        /\ submissions' = rows.submissions
        /\ grades' = rows.grades
        /\ quizzes' = tx.quizzes
        /\ quiz_details' = tx.quiz_details
        /\ goals' = IF ~saved.raised /\ req.op = "finish_quiz"
                    THEN update_goal_progress(CurrentUser, tx.quizzes) ELSE goals
        /\ session_results' = IF saved.raised THEN session_results
                              ELSE session_results + 1
        /\ inflight' = [inflight EXCEPT ![r].pc = IF saved.raised THEN "failed"
                                                  ELSE "saved"]
        /\ UNCHANGED << pool, session, last, today, dash >>

\* The response: after a save the request's cookie, with the six keys
\* popped, replaces the browser's; a refusal or an error leaves it.
RespondCompletion ==
  \E r \in DOMAIN inflight :
    LET req == inflight[r]
    IN  /\ req.pc \in {"refused", "failed", "saved"}
        /\ session' = IF req.pc = "saved" THEN ClearSession(req.cookie) ELSE session
        /\ last' = Resp(req.op, CASE req.pc = "saved" -> "ok"
                                  [] req.pc = "failed" -> "db_error"
                                  [] OTHER -> "no_quiz")
        /\ inflight' = [inflight EXCEPT ![r].pc = "done"]
        /\ UNCHANGED << pool, db, session_results, today, dash >>

NextConcurrent ==
  \/ StartBeforeCompletions
  \/ ReceiveCompletion
  \/ PersistCompletion
  \/ RespondCompletion

SpecConcurrent == InitResults /\ [][NextConcurrent]_vars

\* ------------------------------------------------- grading, function by function
\* The pools the grading functions are applied to: the first n questions of
\* the first bank.
GradingPools == {[i \in 1..n |-> BankA(i)] : n \in 0..MaxGraded}

\* The lists of selected ids handed to calculate_final_score: 1..n, so that
\* a pool shorter than the list leaves ids whose question is gone.
IdLists == {[i \in 1..n |-> i] : n \in 0..MaxGraded}

\* The labels an answers map may hold for a question.
GradedLabels == {"a", "b", "", NoVal}

\* The answers maps: any subset of the selected ids, any labels.
GradedMaps(question_ids) ==
  UNION {[D -> GradedLabels] : D \in SUBSET Range(question_ids)}

\* The calls made: one of check_answer or of calculate_final_score, with
\* its arguments.
GradingCalls ==
  {[op |-> "call", fn |-> "check_answer", question_id |-> question_id,
    user_answer |-> user_answer] :
     question_id \in 1..(MaxGraded + 1), user_answer \in GradedLabels \cup {"A"}}
    \cup UNION {{[op |-> "call", fn |-> "calculate_final_score",
                  question_ids |-> question_ids, user_answers |-> user_answers] :
                   user_answers \in GradedMaps(question_ids)} :
                question_ids \in IdLists}

InitGrading ==
  /\ pool \in GradingPools
  /\ session = NoSession
  /\ quizzes = {}
  /\ quiz_details = {}
  /\ submissions = {}
  /\ grades = {}
  /\ goals = InitialGoals
  /\ last \in GradingCalls
  /\ session_results = 0
  /\ today = FirstDay
  /\ dash = NoDash
  /\ inflight = << >>

\* The call of QuizService.check_answer and what it returned.
CheckAnswer ==
  /\ last.op = "call"
  /\ last.fn = "check_answer"
  /\ last' = [op |-> "check_answer", question_id |-> last.question_id,
              user_answer |-> last.user_answer,
              returned |-> check_answer(last.question_id, last.user_answer)]
  /\ UNCHANGED << pool, db, session, session_results, today, dash, inflight >>

\* The call of QuizService.calculate_final_score and what it returned.
CalculateFinalScore ==
  /\ last.op = "call"
  /\ last.fn = "calculate_final_score"
  /\ last' = [op |-> "calculate_final_score", question_ids |-> last.question_ids,
              user_answers |-> last.user_answers,
              returned |-> calculate_final_score(last.question_ids, last.user_answers)]
  /\ UNCHANGED << pool, db, session, session_results, today, dash, inflight >>

NextGrading ==
  \/ CheckAnswer
  \/ CalculateFinalScore

SpecGrading == InitGrading /\ [][NextGrading]_vars

\* ----------------------------------------------- selection, function by function
\* The pools the selection functions are applied to.
SelectPools ==
  {[i \in 1..n |-> BankA(i)] : n \in 0..MaxSelect}
    \cup {[i \in 1..n |-> BankB(i)] : n \in 0..MaxSelect}

\* The category arguments: none, empty, and spellings of categories.
SelectCategories == {NoVal, "", "grammar", "Grammar", "mixed", "Mixed", "reading"}

\* The calls made: one of the three functions, with its arguments.
SelectCalls ==
  {[op |-> "call", fn |-> fn, limit |-> limit, category |-> category] :
     fn \in {"get_questions", "fetch_questions_from_db", "check_questions_available"},
     limit \in 1..(MaxSelect + 1), category \in SelectCategories}

InitSelect ==
  /\ pool \in SelectPools
  /\ session = NoSession
  /\ quizzes = {}
  /\ quiz_details = {}
  /\ submissions = {}
  /\ grades = {}
  /\ goals = InitialGoals
  /\ last \in SelectCalls
  /\ session_results = 0
  /\ today = FirstDay
  /\ dash = NoDash
  /\ inflight = << >>

\* The call of QuizService.get_questions and the list it returned.
GetQuestions ==
  /\ last.op = "call"
  /\ last.fn = "get_questions"
  /\ \E questions \in get_questions(last.limit, last.category) :
       last' = [op |-> "get_questions", limit |-> last.limit,
                category |-> last.category, returned |-> questions]
  /\ UNCHANGED << pool, db, session, session_results, today, dash, inflight >>

\* The call of QuizRepository.fetch_questions_from_db and the list it returned.
FetchQuestionsFromDb ==
  /\ last.op = "call"
  /\ last.fn = "fetch_questions_from_db"
  /\ \E questions \in fetch_questions_from_db(last.limit, last.category) :
       last' = [op |-> "fetch_questions_from_db", limit |-> last.limit,
                category |-> last.category, returned |-> questions]
  /\ UNCHANGED << pool, db, session, session_results, today, dash, inflight >>

\* The call of QuizService.check_questions_available and what it returned.
CheckQuestionsAvailable ==
  /\ last.op = "call"
  /\ last.fn = "check_questions_available"
  /\ last' = [op |-> "check_questions_available", limit |-> last.limit,
              category |-> last.category,
              returned |-> check_questions_available(last.category)]
  /\ UNCHANGED << pool, db, session, session_results, today, dash, inflight >>

NextSelect ==
  \/ GetQuestions
  \/ FetchQuestionsFromDb
  \/ CheckQuestionsAvailable
  \/ StartQuiz

SpecSelect == InitSelect /\ [][NextSelect]_vars

\* ------------------------------------------------- statistics over a history
\* The graded SPEAKING submissions of a history: each sub-score is NULL
\* (a grade made by adjust_grade), 0 (evaluate_speaking on a missing audio
\* file) or a positive score, in tenths.
SpeakingEntries ==
  {[student_id |-> CurrentUser, kind |-> "SPEAKING", graded |-> TRUE, score |-> 0,
    pronunciation_score |-> p, fluency_score |-> f, created_at |-> d] :
     p \in {NoScore, 0, 800}, f \in {NoScore, 0, 600}, d \in 1..MaxDay}

\* The graded WRITING submissions of a history.
WritingEntries ==
  {[student_id |-> CurrentUser, kind |-> "WRITING", graded |-> TRUE, score |-> sc,
    pronunciation_score |-> NoScore, fluency_score |-> NoScore, created_at |-> d] :
     sc \in {0, 700}, d \in 1..MaxDay}

\* The graded HANDWRITTEN submissions of a history.
HandwrittenEntries ==
  {[student_id |-> CurrentUser, kind |-> "HANDWRITTEN", graded |-> TRUE, score |-> 400,
    pronunciation_score |-> NoScore, fluency_score |-> NoScore, created_at |-> d] :
     d \in 1..MaxDay}

\* Submissions no grade row exists for.
UngradedEntries ==
  {[student_id |-> CurrentUser, kind |-> k, graded |-> FALSE, score |-> 0,
    pronunciation_score |-> NoScore, fluency_score |-> NoScore, created_at |-> d] :
     k \in {"SPEAKING", "WRITING"}, d \in 1..MaxDay}

\* The submissions of a classmate: a graded and an ungraded WRITING one.
ClassmateEntries ==
  {[student_id |-> OtherUser, kind |-> "WRITING", graded |-> g, score |-> 0,
    pronunciation_score |-> NoScore, fluency_score |-> NoScore, created_at |-> d] :
     g \in BOOLEAN, d \in 1..MaxDay}

\* The histories: rows in the order of their ids, so with created_at (default
\* utcnow at insertion) not decreasing.
Histories ==
  {h \in UNION {[1..n -> SpeakingEntries \cup WritingEntries \cup HandwrittenEntries
                            \cup UngradedEntries \cup ClassmateEntries] :
                   n \in 0..MaxHistory} :
     \A i \in DOMAIN h : \A j \in DOMAIN h : (i < j) => h[i].created_at <= h[j].created_at}

\* The submission rows of a history.
HistorySubmissions(h) ==
  {[id |-> i, student_id |-> h[i].student_id, activity_id |-> 0,
    submission_type |-> h[i].kind, created_at |-> h[i].created_at] : i \in DOMAIN h}

\* The grade rows of a history.
HistoryGrades(h) ==
  {[id |-> i, submission_id |-> i, score |-> h[i].score,
    general_feedback |-> [correct |-> 0, total |-> 0],
    pronunciation_score |-> h[i].pronunciation_score,
    fluency_score |-> h[i].fluency_score,
    instructor_approved |-> TRUE] : i \in {j \in DOMAIN h : h[j].graded}}

\* The quiz rows of a history: none, or one result of the student.
HistoryQuizzes ==
  {{}, {[id |-> 1, user_id |-> CurrentUser, quiz_title |-> "Grammar Quiz",
         score |-> 500, category |-> "grammar", date_taken |-> FirstDay]}}

\* The days the statistics are asked for: the last day of the history, the
\* day that leaves its first day just outside the window, and its first day
\* (a clock set back, which leaves later rows in the future).
ReferenceDays == {MaxDay, FirstDay + WindowDays, FirstDay}

InitStats ==
  /\ pool = << >>
  /\ session = NoSession
  /\ quizzes \in HistoryQuizzes
  /\ quiz_details = {}
  /\ \E h \in Histories :
       /\ submissions = HistorySubmissions(h)
       /\ grades = HistoryGrades(h)
  /\ goals = InitialGoals
  /\ last = Resp("init", "ok")
  /\ session_results = 0
  /\ today \in ReferenceDays
  /\ dash = NoDash
  /\ inflight = << >>

Dashboard == dashboard

InstructorDashboard == instructor_dashboard

GetDashboardData ==
  \E student_id \in {CurrentUser, OtherUser} : get_dashboard_data(student_id)

NextStats ==
  \/ Dashboard
  \/ GetDashboardData
  \/ InstructorDashboard

SpecStats == InitStats /\ [][NextStats]_vars

\* ------------------------------------------------------------- properties
\* The response of the step is one of submit_quiz or finish_quiz.
Completes(r) == r.op \in {"submit_quiz", "finish_quiz"}

\* The score, in tenths, nearest to 100 * correct / total.
NearestTenth(score, correct, total) ==
  /\ 2 * (score * total - 1000 * correct) <= total
  /\ 2 * (1000 * correct - score * total) <= total

\* C1: save_result is all-or-nothing. A request whose save_result fails
\* after the summary row was flushed, while a detail row is added or at the
\* commit leaves the Quiz and QuizDetail tables as they were; a request that
\* succeeds adds one Quiz row together with one QuizDetail row per selected
\* question, all of them of that Quiz row.
C1_SaveResultAtomic ==
  [][Completes(last') =>
       \/ /\ last'.status \in {"db_error", "no_quiz", "error"}
          /\ quizzes' = quizzes
          /\ quiz_details' = quiz_details
       \/ /\ last'.status = "ok"
          /\ quizzes \subseteq quizzes'
          /\ quiz_details \subseteq quiz_details'
          /\ Cardinality(quizzes' \ quizzes) = 1
          /\ Cardinality(quiz_details' \ quiz_details) = Len(session.quiz_questions)
          /\ \A d \in quiz_details' \ quiz_details :
               \A q \in quizzes' \ quizzes : d.quiz_id = q.id]_vars

\* A started session whose save_result failed kept both tables empty.
C1_Witness ==
  /\ Completes(last)
  /\ last.status = "db_error"
  /\ Started(session)
  /\ Len(session.quiz_questions) = MaxPool
  /\ quizzes = {}
  /\ quiz_details = {}

C3_PersistedScore ==
  [][(Completes(last') /\ last'.status = "ok") =>
       LET question_ids == session.quiz_questions
           answers == last'.answers
           total == Len(question_ids)
           correct == Cardinality(
             {i \in 1..total :
                /\ question_ids[i] \in DOMAIN answers
                /\ answers[question_ids[i]] \in {"a", "A", "b", "B"}
                /\ Upper(answers[question_ids[i]])
                     = AnswerKey(question_ids[i])})
       IN  /\ total > 0
           /\ total = Cardinality(Range(question_ids))
           /\ \A q \in quizzes' \ quizzes :
                /\ NearestTenth(q.score, correct, total)
                /\ last'.result = [correct |-> correct, total |-> total,
                                   score |-> q.score]]_vars

\* A session of MaxPool questions was submitted with some answers right and
\* some wrong, and its row is stored.
C3_Witness ==
  /\ last.op = "submit_quiz"
  /\ last.status = "ok"
  /\ last.result.total = MaxPool
  /\ last.result.correct > 0
  /\ last.result.correct < last.result.total
  /\ \E q \in quizzes : q.score = last.result.score

\* C4: a successful start_quiz sets the session keys; after a successful
\* submit_quiz or finish_quiz none of the six quiz keys is left; and a
\* submit_quiz, finish_quiz or get_quiz_questions that finds no started
\* session answers 'no quiz started' and writes nothing.
C4_SessionCleared ==
  /\ []((Completes(last) /\ last.status = "ok") => session.keys \cap SessionKeys = {})
  /\ [][/\ (last'.op = "start_quiz" /\ last'.status = "ok")
             => /\ Started(session')
                /\ SessionKeys \ {"quiz_activity_id"} \subseteq session'.keys
        /\ ((Completes(last') \/ last'.op = "get_quiz_questions")
              /\ ~Started(session))
             => /\ last'.status = "no_quiz"
                /\ UNCHANGED << db, session >>]_vars

\* After a completed session, get_quiz_questions was rejected.
C4_Witness ==
  /\ last.op = "get_quiz_questions"
  /\ last.status = "no_quiz"
  /\ session_results = 1
  /\ session.keys = {}

\* C5: grading an empty or null answer never raises and yields incorrect:
\* check_answer returns False for '' and for None, and calculate_final_score
\* returns, counting only the questions answered with the stored label.
C5_EmptyAnswerIsIncorrect ==
  /\ (last.op = "check_answer" /\ last.user_answer \in {"", NoVal})
       => (~last.returned.raised /\ ~last.returned.value)
  /\ last.op = "calculate_final_score"
       => /\ ~last.returned.raised
          /\ last.returned.correct
               = Cardinality({q \in DOMAIN last.user_answers :
                    /\ HasQuestion(q)
                    /\ last.user_answers[q] \in {"a", "b"}
                    /\ Upper(last.user_answers[q]) = AnswerKey(q)})

\* C6 as stated: calculate_final_score on an empty list of selected ids
\* fails and returns no zero score.
C6_EmptySessionFails ==
  (last.op = "calculate_final_score" /\ last.question_ids = << >>)
    => last.returned.raised

\* C6, amended: calculate_final_score on an empty list of selected ids
\* returns correct = 0, total = 0, score = 0 and does not raise.
C6_EmptySessionScoresZero ==
  (last.op = "calculate_final_score" /\ last.question_ids = << >>)
    => /\ ~last.returned.raised
       /\ last.returned.correct = 0
       /\ last.returned.total = 0
       /\ last.returned.score = 0

\* calculate_final_score was called with an empty list over a non-empty pool.
C6_Witness ==
  /\ last.op = "calculate_final_score"
  /\ last.question_ids = << >>
  /\ Len(pool) > 0

\* C7: a start_quiz posted with category 'mixed' or '' and no activity, over
\* a non-empty pool, succeeds, starts a session and selects among the
\* questions of every category.
C7_MixedIsNoFilter ==
  [][\A c \in {"mixed", ""} :
       (start_quiz("POST", c, 0) /\ Len(pool) > 0)
         => /\ last'.status = "ok"
            /\ Started(session')
            /\ session'.quiz_questions \in LimitAll(DOMAIN pool, QuizLimit)]_vars

C9_ScoreBounds ==
  (/\ last.op = "calculate_final_score"
   /\ ~last.returned.raised
   /\ last.returned.total >= 1)
    => /\ last.returned.total = Len(last.question_ids)
       /\ 0 <= last.returned.correct
       /\ last.returned.correct <= last.returned.total
       /\ 0 <= last.returned.score
       /\ last.returned.score <= 1000
       /\ last.returned.score = 0 <=> last.returned.correct = 0
       /\ last.returned.score = 1000 <=> last.returned.correct = last.returned.total

\* A list of MaxGraded ids was graded with exactly one right answer.
C9_Witness ==
  /\ last.op = "calculate_final_score"
  /\ ~last.returned.raised
  /\ last.returned.total = MaxGraded
  /\ last.returned.correct = 1
  /\ last.returned.score > 0

\* C10: the speaking score is the average of (pronunciation + fluency) / 2
\* over the graded SPEAKING submissions whose two sub-scores are both
\* present, a sub-score of 0 being present, and 0.0 when there is none: the
\* same submissions the per-date speaking series takes.
C10_SpeakingScore ==
  (dash.op = "dashboard"
     \/ (dash.op = "get_dashboard_data" /\ dash.student_id = CurrentUser))
    => LET present == {s \in submissions :
                         /\ s.student_id = CurrentUser
                         /\ s.submission_type = "SPEAKING"
                         /\ \E g \in grades :
                              /\ g.submission_id = s.id
                              /\ g.pronunciation_score # NoScore
                              /\ g.fluency_score # NoScore}
           twice == SumFn([s \in present |->
                     LET g == CHOOSE x \in grades : x.submission_id = s.id
                     IN  g.pronunciation_score + g.fluency_score])
           n == Cardinality(present)
       IN  IF n = 0 THEN dash.scores.speaking_score = 0
           ELSE NearestTenth(dash.scores.speaking_score, twice, 2000 * n)

\* C11: the recommended next step of the dashboard is the label of the
\* first row that applies, in this order: no graded speaking submission,
\* no graded writing submission, speaking score below 70, writing score
\* below 70, no completed quiz, otherwise.
C11_RecommendedNext ==
  dash.op = "dashboard" =>
    LET Graded(kind) == \E s \in submissions :
                          /\ s.student_id = CurrentUser
                          /\ s.submission_type = kind
                          /\ \E g \in grades : g.submission_id = s.id
        rows == << [applies |-> ~Graded("SPEAKING"), label |-> "Improve Your Speaking"],
                   [applies |-> ~Graded("WRITING"), label |-> "Improve Your Writing"],
                   [applies |-> dash.scores.speaking_score < 700,
                    label |-> "Improve Your Speaking"],
                   [applies |-> dash.scores.writing_score < 700,
                    label |-> "Improve Your Writing"],
                   [applies |-> \A q \in quizzes : q.user_id # CurrentUser,
                    label |-> "Take a Quiz"],
                   [applies |-> TRUE, label |-> "Start Your First Activity"] >>
        first == CHOOSE i \in DOMAIN rows :
                   rows[i].applies /\ \A j \in 1..(i - 1) : ~rows[j].applies
    IN  dash.recommended_next = rows[first].label

\* A student with speaking and writing at 70 or more and no quiz is sent to
\* a quiz.
C11_Witness ==
  /\ dash.op = "dashboard"
  /\ dash.scores.speaking_score >= 700
  /\ dash.scores.writing_score >= 700
  /\ quizzes = {}
  /\ dash.recommended_next = "Take a Quiz"

\* C12: the strongest and the weakest area are a largest and a smallest
\* among the areas whose score is not 0.0; when every area scores 0.0 the
\* dashboard shows Speaking 0.0 and Handwritten 0.0; an area scoring 0.0 is
\* never the weakest while another area has a score.
C12_StrongestWeakest ==
  dash.op = "dashboard" =>
    LET score == [a \in {"Speaking", "Writing", "Quiz", "Handwritten"} |->
                    CASE a = "Speaking" -> dash.scores.speaking_score
                      [] a = "Writing" -> dash.scores.writing_score
                      [] a = "Quiz" -> dash.scores.quiz_score
                      [] OTHER -> dash.scores.handwritten_score]
        with_data == {a \in DOMAIN score : score[a] # 0}
        i == dash.insights
    IN  IF with_data = {}
        THEN i = [strongest_area |-> "Speaking", strongest_score |-> 0,
                  weakest_area |-> "Handwritten", weakest_score |-> 0]
        ELSE /\ i.strongest_area \in with_data
             /\ i.weakest_area \in with_data
             /\ i.strongest_score = score[i.strongest_area]
             /\ i.weakest_score = score[i.weakest_area]
             /\ \A a \in with_data : /\ score[a] <= i.strongest_score
                                     /\ i.weakest_score <= score[a]

\* Handwritten has no data, writing and quiz have, and the weakest area is
\* the quiz, not the empty one.
C12_Witness ==
  /\ dash.op = "dashboard"
  /\ dash.scores.handwritten_score = 0
  /\ dash.scores.speaking_score = 0
  /\ dash.scores.writing_score > dash.scores.quiz_score
  /\ dash.scores.quiz_score > 0
  /\ dash.insights.weakest_area = "Quiz"
  /\ dash.insights.strongest_area = "Writing"

\* C13: the window of the instructor's dashboard asked on day D has 7
\* entries, for the days D-6 to D, oldest first; a submission created on one
\* of those days is counted in the entry of its day and in no other, and a
\* submission created on D-7 or before, or on D+1 or after, in none.
C13_RollingWindow ==
  dash.op = "instructor_dashboard" =>
    LET counts == dash.sparkline_data.submissions
        days == dash.last_7_days
    IN  /\ Len(days) = 7
        /\ Len(counts) = 7
        /\ \A i \in 1..7 :
             /\ days[i] = today - 7 + i
             /\ counts[i] = Cardinality({s \in submissions : s.created_at = today - 7 + i})
        /\ SumFn(counts)
             = Cardinality({s \in submissions :
                              today - 6 <= s.created_at /\ s.created_at <= today})

\* Of two submissions made on D-7 and on D-6, only the second is counted, in
\* the first entry.
C13_Witness ==
  /\ dash.op = "instructor_dashboard"
  /\ \E s \in submissions : s.created_at = today - 7
  /\ \E s \in submissions : s.created_at = today - 6
  /\ Cardinality(submissions) = 2
  /\ dash.sparkline_data.submissions[1] = 1
  /\ SumFn(dash.sparkline_data.submissions) = 1

\* C14: get_questions returns at most `limit` questions, each once and each
\* of the category asked for (any question when none is asked for); when
\* fewer than `limit` questions match it returns all of them; and a session
\* started over k < limit matching questions holds those k questions, which
\* is the total its score is computed over.
C14_AtMostLimit ==
  /\ [](last.op = "get_questions" =>
          LET matching == IF last.category \in {NoVal, ""} THEN DOMAIN pool
                          ELSE {i \in DOMAIN pool :
                                  /\ pool[i].category # NoVal
                                  /\ Lower(pool[i].category) = Lower(last.category)}
              k == Cardinality(matching)
              returned == last.returned
          IN  /\ Len(returned) <= last.limit
              /\ Range(returned) \subseteq matching
              /\ Cardinality(Range(returned)) = Len(returned)
              /\ k < last.limit => Range(returned) = matching
              /\ k >= last.limit => Len(returned) = last.limit)
  /\ [][\A req \in StartRequests, a \in ActivityArgs :
          (start_quiz(req.method, req.category, a) /\ last'.status = "ok") =>
            LET asked == IF a # 0 THEN Activities[a].quiz_category ELSE req.category
                matching == IF asked \in {NoVal, "", " ", "mixed"} THEN DOMAIN pool
                            ELSE {i \in DOMAIN pool :
                                    /\ pool[i].category # NoVal
                                    /\ Lower(pool[i].category) = Lower(asked)}
                k == Cardinality(matching)
                selected == session'.quiz_questions
            IN  /\ Len(selected) <= QuizLimit
                /\ Range(selected) \subseteq matching
                /\ k < QuizLimit
                     => /\ Range(selected) = matching
                        /\ Len(selected) = k
                        /\ calculate_final_score(selected, << >>).total = k]_vars

\* Two of three questions are of the category asked for and a limit of 3 or
\* more returned just the two.
C14_Witness ==
  /\ last.op = "get_questions"
  /\ last.category = "Grammar"
  /\ last.limit > 2
  /\ Len(pool) = 3
  /\ Len(last.returned) = 2

\* C17: a category filters the pool without regard to letter case: for two
\* spellings of a category that differ only in case, get_questions and
\* fetch_questions_from_db can return the same lists and
\* check_questions_available gives the same verdict.
C17_CategoryCaseInsensitive ==
  LET OtherCase(c) == CASE c = "grammar" -> "Grammar"
                        [] c = "Grammar" -> "grammar"
                        [] c = "mixed" -> "Mixed"
                        [] c = "Mixed" -> "mixed"
                        [] OTHER -> c
  IN  /\ last.op = "get_questions"
           => last.returned \in get_questions(last.limit, OtherCase(last.category))
      /\ last.op = "fetch_questions_from_db"
           => last.returned \in fetch_questions_from_db(last.limit, OtherCase(last.category))
      /\ last.op = "check_questions_available"
           => last.returned.available
                = check_questions_available(OtherCase(last.category)).available

\* C17 for the two functions of QuizService alone.
C17_ServiceCaseInsensitive ==
  LET OtherCase(c) == CASE c = "grammar" -> "Grammar"
                        [] c = "Grammar" -> "grammar"
                        [] c = "mixed" -> "Mixed"
                        [] c = "Mixed" -> "mixed"
                        [] OTHER -> c
  IN  /\ last.op = "get_questions"
           => last.returned \in get_questions(last.limit, OtherCase(last.category))
      /\ last.op = "check_questions_available"
           => last.returned.available
                = check_questions_available(OtherCase(last.category)).available

\* C15: the Quiz row of a session for which no category was supplied holds
\* the category of the first selected question in lower case, or 'grammar'
\* when that question has none; the row of a session for which a category
\* was supplied holds that category.
C15_ResultCategory ==
  [][(Completes(last') /\ last'.status = "ok") =>
       LET supplied == session.quiz_category
           first == session.quiz_questions[1]
           expected == IF supplied \notin {NoVal, ""} THEN supplied
                       ELSE IF pool[first].category \notin {NoVal, ""}
                       THEN Lower(pool[first].category)
                       ELSE "grammar"
       IN  \A q \in quizzes' \ quizzes : q.category = expected]_vars

\* C16: grading is case-insensitive: check_answer returns for a label what
\* it returns for the label in lower case and for the label in upper case,
\* and calculate_final_score returns for an answers map what it returns for
\* the map with every label in lower case and with every label in upper case.
C16_GradingCaseInsensitive ==
  /\ (last.op = "check_answer") =>
       /\ last.returned = check_answer(last.question_id, Lower(last.user_answer))
       /\ last.returned = check_answer(last.question_id, Upper(last.user_answer))
  /\ (last.op = "calculate_final_score") =>
       LET lowered == [q \in DOMAIN last.user_answers |-> Lower(last.user_answers[q])]
           uppered == [q \in DOMAIN last.user_answers |-> Upper(last.user_answers[q])]
       IN  /\ last.returned = calculate_final_score(last.question_ids, lowered)
           /\ last.returned = calculate_final_score(last.question_ids, uppered)

\* check_answer accepted the lower-case spelling of an upper-case key.
C16_Witness ==
  /\ last.op = "check_answer"
  /\ HasQuestion(last.question_id)
  /\ last.user_answer = "a"
  /\ pool[last.question_id].correct_answer = "A"
  /\ last.returned.value

\* C18: get_dashboard_data returns a number, never NULL and never negative,
\* for each of the four area scores, and 0.0 for a kind the student has no
\* qualifying activity of: no graded submission of the kind (for speaking,
\* none whose grade holds both sub-scores), no quiz result.
C18_AreaScoreDefaults ==
  (dash.op = "get_dashboard_data") =>
    LET mine(kind) == {s \in submissions : /\ s.student_id = dash.student_id
                                           /\ s.submission_type = kind
                                           /\ \E g \in grades : g.submission_id = s.id}
        spoken == {s \in mine("SPEAKING") :
                     \E g \in grades : /\ g.submission_id = s.id
                                       /\ g.pronunciation_score # NoScore
                                       /\ g.fluency_score # NoScore}
        taken == {q \in quizzes : q.user_id = dash.student_id}
    IN  /\ \A k \in {"speaking_score", "writing_score", "handwritten_score", "quiz_score"} :
             dash.scores[k] # NoScore /\ dash.scores[k] >= 0
        /\ (spoken = {}) => dash.scores.speaking_score = 0
        /\ (mine("WRITING") = {}) => dash.scores.writing_score = 0
        /\ (mine("HANDWRITTEN") = {}) => dash.scores.handwritten_score = 0
        /\ (taken = {}) => dash.scores.quiz_score = 0

\* get_dashboard_data answered for a student all of whose speaking grades
\* lack a sub-score, and who has no writing, handwritten or quiz result.
C18_Witness ==
  /\ dash.op = "get_dashboard_data"
  /\ dash.student_id = CurrentUser
  /\ \E s \in submissions : s.submission_type = "SPEAKING" /\ s.student_id = CurrentUser
  /\ \A s \in submissions :
       /\ s.submission_type = "SPEAKING"
       /\ \E g \in grades : /\ g.submission_id = s.id
                            /\ (g.pronunciation_score = NoScore \/ g.fluency_score = NoScore)
  /\ quizzes = {}
  /\ dash.scores = [speaking_score |-> 0, writing_score |-> 0,
                    handwritten_score |-> 0, quiz_score |-> 0]

\* C19: the date list of the dashboard's time series is strictly increasing
\* and holds a date exactly when the student has, on that date, a graded
\* speaking submission with both sub-scores, a graded writing submission, a
\* graded handwritten submission or a quiz result.
C19_DateList ==
  (dash.op = "dashboard") =>
    LET dates == dash.chart_data.sorted_dates
        graded(kind) == {s \in submissions : /\ s.student_id = CurrentUser
                                             /\ s.submission_type = kind
                                             /\ \E g \in grades : g.submission_id = s.id}
        spoken == {s \in graded("SPEAKING") :
                     \E g \in grades : /\ g.submission_id = s.id
                                       /\ g.pronunciation_score # NoScore
                                       /\ g.fluency_score # NoScore}
        observed == {s.created_at : s \in spoken \cup graded("WRITING")
                                            \cup graded("HANDWRITTEN")}
                      \cup {q.date_taken : q \in {r \in quizzes : r.user_id = CurrentUser}}
    IN  /\ \A i \in DOMAIN dates : \A j \in DOMAIN dates : (i < j) => dates[i] < dates[j]
        /\ {dates[i] : i \in DOMAIN dates} = observed

\* The dashboard listed two dates, one of them for a speaking submission
\* whose sub-scores are present but zero, on a day a submission without a
\* grade adds nothing to.
C19_Witness ==
  /\ dash.op = "dashboard"
  /\ Len(dash.chart_data.sorted_dates) = 2
  /\ \E s \in submissions :
       /\ s.submission_type = "SPEAKING"
       /\ \E g \in grades : /\ g.submission_id = s.id
                            /\ g.pronunciation_score = 0
                            /\ g.fluency_score # NoScore
       /\ \A t \in submissions \ {s} : ~(\E g \in grades : g.submission_id = t.id)

\* C20: each of the four series of the dashboard has one entry per date of
\* the date list, in the order of the list: the average, to one decimal, of
\* the kind's scores of that date when there is one, and 0 otherwise.
C20_SeriesEntries ==
  (dash.op = "dashboard") =>
    LET chart == dash.chart_data
        dates == chart.sorted_dates
        graded(kind) == {s \in submissions : /\ s.student_id = CurrentUser
                                             /\ s.submission_type = kind
                                             /\ \E g \in grades : g.submission_id = s.id}
        gradeOf(s) == CHOOSE g \in grades : g.submission_id = s.id
        spoken(d) == {s \in graded("SPEAKING") :
                        /\ s.created_at = d
                        /\ gradeOf(s).pronunciation_score # NoScore
                        /\ gradeOf(s).fluency_score # NoScore}
        on(kind, d) == {s \in graded(kind) : s.created_at = d}
        taken(d) == {q \in quizzes : q.user_id = CurrentUser /\ q.date_taken = d}
        \* e is f's sum over den times the number of scores, to the nearest unit
        nearest(e, f, den) ==
          LET n == Cardinality(DOMAIN f)
              diff == e * den * n - SumFn(f)
          IN  IF n = 0 THEN e = 0
              ELSE 2 * diff <= den * n /\ 0 - 2 * diff <= den * n
    IN  /\ Len(chart.dates) = Len(dates)
        /\ Len(chart.speaking_scores) = Len(dates)
        /\ Len(chart.writing_scores) = Len(dates)
        /\ Len(chart.handwritten_scores) = Len(dates)
        /\ Len(chart.quiz_scores) = Len(dates)
        /\ \A i \in DOMAIN dates :
             LET d == dates[i]
             IN  /\ chart.dates[i] = DayLabel(d)
                 /\ nearest(chart.speaking_scores[i],
                            [s \in spoken(d) |-> gradeOf(s).pronunciation_score
                                                   + gradeOf(s).fluency_score], 2)
                 /\ nearest(chart.writing_scores[i],
                            [s \in on("WRITING", d) |-> gradeOf(s).score], 1)
                 /\ nearest(chart.handwritten_scores[i],
                            [s \in on("HANDWRITTEN", d) |-> gradeOf(s).score], 1)
                 /\ nearest(chart.quiz_scores[i], [q \in taken(d) |-> q.score], 1)

\* The dashboard charted a day with two writing scores, averaged, and a
\* quiz result, on which speaking and handwritten have the sentinel.
C20_Witness ==
  /\ dash.op = "dashboard"
  /\ dash.chart_data.sorted_dates = << FirstDay >>
  /\ dash.chart_data.writing_scores = << 350 >>
  /\ dash.chart_data.quiz_scores = << 500 >>
  /\ dash.chart_data.speaking_scores = << 0 >>
  /\ dash.chart_data.handwritten_scores = << 0 >>

\* C21: for each day of the instructor's window, submissions is the number
\* of submissions created that day, pending the number of those without a
\* grade, class_avg the mean grade score of the graded ones to one decimal
\* (0 when none is graded) and active_students the number of distinct
\* students among them; so pending and active_students are at most
\* submissions, and a day without submissions has four zeros.
C21_PerDayFigures ==
  (dash.op = "instructor_dashboard") =>
    LET spark == dash.sparkline_data
    IN  \A i \in 1..7 :
          LET on == {s \in submissions : s.created_at = today - 7 + i}
              graded == {s \in on : \E g \in grades : g.submission_id = s.id}
              scores == [s \in graded |->
                           (CHOOSE g \in grades : g.submission_id = s.id).score]
              diff == spark.class_avg[i] * Cardinality(graded) - SumFn(scores)
          IN  /\ spark.submissions[i] = Cardinality(on)
              /\ spark.pending[i] = Cardinality(on \ graded)
              /\ IF graded = {} THEN spark.class_avg[i] = 0
                 ELSE /\ 2 * diff <= Cardinality(graded)
                      /\ 0 - 2 * diff <= Cardinality(graded)
              /\ spark.active_students[i] = Cardinality({s.student_id : s \in on})
              /\ spark.pending[i] <= spark.submissions[i]
              /\ spark.active_students[i] <= spark.submissions[i]
              /\ (spark.submissions[i] = 0) =>
                   /\ spark.pending[i] = 0
                   /\ spark.class_avg[i] = 0
                   /\ spark.active_students[i] = 0

\* The instructor's dashboard showed, for today, two submissions of one
\* student, one of them pending and the other graded 70.0.
C21_Witness ==
  /\ dash.op = "instructor_dashboard"
  /\ dash.sparkline_data.submissions[7] = 2
  /\ dash.sparkline_data.pending[7] = 1
  /\ dash.sparkline_data.class_avg[7] = 700
  /\ dash.sparkline_data.active_students[7] = 1

\* C22: a stored quiz result is never changed: a step that keeps a Quiz row
\* keeps its score, title, category and detail rows as they were, and
\* quiz_review and quiz_result leave all Quiz and QuizDetail rows alone.
C22_ResultImmutable ==
  [][/\ \A q \in quizzes :
          (\E r \in quizzes' : r.id = q.id) =>
            /\ q \in quizzes'
            /\ {d \in quiz_details' : d.quiz_id = q.id}
                 = {d \in quiz_details : d.quiz_id = q.id}
     /\ (last'.op \in {"quiz_review", "quiz_result"}) =>
          (quizzes' = quizzes /\ quiz_details' = quiz_details)]_vars

\* The student reviewed a stored result of theirs that has details.
C22_Witness ==
  /\ last.op = "quiz_review"
  /\ last.status = "ok"
  /\ last.result.total > 0
  /\ \E q \in quizzes : q.id = last.quiz_id /\ q.user_id = CurrentUser

\* C23: after every successful completion, through submit_quiz as well as
\* finish_quiz, each of the student's 'In Progress' goals of category 'Quiz'
\* holds the average of the student's quiz scores, the new one included, and
\* is 'Completed' when that average reaches its target.
C23_GoalsRefreshed ==
  [][(Completes(last') /\ last'.status = "ok") =>
       LET mine == {q \in quizzes' : q.user_id = CurrentUser}
           total == SumFn([q \in mine |-> q.score])
           n == Cardinality(mine)
       IN  \A g \in goals :
             (g.user_id = CurrentUser /\ g.category = "Quiz" /\ g.status = "In Progress") =>
               \E h \in goals' :
                 /\ h.id = g.id
                 /\ h.current_score.sum * n = total * h.current_score.n
                 /\ (total >= g.target_score * n) => h.status = "Completed"]_vars

\* The same, of the completions through finish_quiz only.
C23_FinishRefreshesGoals ==
  [][(last'.op = "finish_quiz" /\ last'.status = "ok") =>
       LET mine == {q \in quizzes' : q.user_id = CurrentUser}
           total == SumFn([q \in mine |-> q.score])
           n == Cardinality(mine)
       IN  \A g \in goals :
             (g.user_id = CurrentUser /\ g.category = "Quiz" /\ g.status = "In Progress") =>
               \E h \in goals' :
                 /\ h.id = g.id
                 /\ h.current_score.sum * n = total * h.current_score.n
                 /\ (total >= g.target_score * n) => h.status = "Completed"]_vars

\* C24: a completed quiz writes an assignment Submission, and takes an
\* activity's title, only for the activity its session was started from: a
\* successful start leaves the session naming the activity the start named
\* (none when it named none), no other request changes that, and a
\* completion writes a Submission and the title of that activity only.
C24_AssignmentOfItsOwnStart ==
  /\ [][\A req \in StartRequests, activity_id \in ActivityArgs :
          (start_quiz(req.method, req.category, activity_id) /\ last'.status = "ok") =>
            SessionActivity(session') = activity_id]_vars
  /\ [][(last'.op \in {"quiz_question", "get_quiz_questions"}) =>
          SessionActivity(session') = SessionActivity(session)]_vars
  /\ [][Completes(last') =>
          /\ \A sub \in submissions' \ submissions :
               sub.activity_id = SessionActivity(session)
          /\ \A q \in quizzes' \ quizzes : \A a \in DOMAIN Activities :
               (q.quiz_title = Activities[a].title) => a = SessionActivity(session)]_vars

\* C25: there is at most one Submission per student and activity, among
\* the submissions made for an activity.
C25_OneSubmissionPerActivity ==
  \A s1 \in submissions : \A s2 \in submissions :
    (/\ s1.activity_id # 0
     /\ s1.activity_id = s2.activity_id
     /\ s1.student_id = s2.student_id) => s1 = s2

\* C26: when submit_quiz or finish_quiz ends for a session begun from an
\* assignment, normally or by a failure of save_result, it has written the
\* QUIZ Submission and its Grade exactly when it has written the Quiz row,
\* and the session is still started only when it has written none of them.
C26_AssignmentAllOrNothing ==
  [][(Completes(last') /\ Started(session) /\ SessionActivity(session) # 0) =>
       LET new_subs == submissions' \ submissions
           new_grades == grades' \ grades
           new_quizzes == quizzes' \ quizzes
       IN  /\ (new_subs # {} /\ new_grades # {}) <=> (new_quizzes # {})
           /\ (new_subs # {}) <=> (new_grades # {})
           /\ Started(session') =>
                (new_subs = {} /\ new_grades = {} /\ new_quizzes = {})]_vars

\* C27: a start_quiz that fails (no question for the category, an empty
\* selection, an activity assigned to another student) leaves the quiz
\* session as it was, with its questions, category and activity id, and
\* writes no row.
C27_FailedStartKeepsSession ==
  [][(last'.op = "start_quiz" /\ last'.status # "ok") =>
       /\ session' = session
       /\ quizzes' = quizzes /\ quiz_details' = quiz_details
       /\ submissions' = submissions /\ grades' = grades /\ goals' = goals]_vars

\* A start was refused while a session begun from an assignment was under
\* way, and the session is still there.
C27_Witness ==
  /\ last.op = "start_quiz"
  /\ last.status \in {"denied", "no_category"}
  /\ Started(session)
  /\ session.quiz_activity_id = 1
  /\ session.quiz_questions # << >>

\* C28: the stored details agree with the stored score: a result written
\* by submit_quiz or finish_quiz has as many detail rows as the total the
\* score was computed over, and as many rows marked correct as the correct
\* count; so quiz_review, counting the rows, shows the correct and total
\* the stored score is the percentage of.
C28_DetailsAgreeWithScore ==
  /\ [][(Completes(last') /\ last'.status = "ok") =>
          \A q \in quizzes' \ quizzes :
            LET rows == {d \in quiz_details' : d.quiz_id = q.id}
            IN  /\ Cardinality(rows) = last'.result.total
                /\ Cardinality({d \in rows : d.is_correct}) = last'.result.correct
                /\ q.score = last'.result.score]_vars
  /\ [][(last'.op = "quiz_review" /\ last'.status = "ok") =>
          LET q == CHOOSE r \in quizzes : r.id = last'.quiz_id
              rows == {d \in quiz_details : d.quiz_id = q.id}
          IN  /\ last'.result.total = Cardinality(rows)
              /\ last'.result.correct = Cardinality({d \in rows : d.is_correct})
              /\ last'.result.score = q.score
              /\ IF last'.result.total = 0 THEN q.score = 0
                 ELSE NearestTenth(q.score, last'.result.correct,
                                   last'.result.total)]_vars

\* The student reviewed a result with one of its two questions correct,
\* stored with the score 50.0.
C28_Witness ==
  /\ last.op = "quiz_review"
  /\ last.status = "ok"
  /\ last.result = [correct |-> 1, total |-> 2, score |-> 500]

\* C29: when completion requests carrying the same started session are
\* processed at the same time, at most one Quiz row and at most one
\* assignment Submission are stored for that session.
C29_OneResultUnderConcurrency ==
  /\ session_results <= 1
  /\ Cardinality(submissions) <= 1

\* C30: delete_quiz removes a result only for its owner and removes it
\* whole. A request naming another user's quiz is refused; a refused, failed
\* or unmatched request leaves every row as it was; a successful one removes
\* the Quiz row and all its QuizDetail rows together, orphans no detail row
\* and changes no other quiz.
C30_DeleteQuizOwnerOnlyAndWhole ==
  [][(last'.op = "delete_quiz") =>
       LET quiz_id == last'.quiz_id
           named == {q \in quizzes : q.id = quiz_id}
       IN  /\ (\E q \in named : q.user_id # CurrentUser) => last'.status = "denied"
           /\ last'.status = "ok" =>
                /\ \E q \in named : q.user_id = CurrentUser
                /\ quizzes' = quizzes \ named
                /\ quiz_details' = {d \in quiz_details : d.quiz_id # quiz_id}
                /\ \A d \in quiz_details' :
                     (\E q \in quizzes : q.id = d.quiz_id) =>
                       (\E q \in quizzes' : q.id = d.quiz_id)
           /\ last'.status # "ok" =>
                /\ quizzes' = quizzes
                /\ quiz_details' = quiz_details
           /\ UNCHANGED << submissions, grades, goals, session >>]_vars

\* The student has deleted their own result, stored as quiz 2 next to a
\* classmate's quiz 1, which keeps its two detail rows.
C30_Witness ==
  /\ last.op = "delete_quiz" /\ last.status = "ok" /\ last.quiz_id = 2
  /\ \E q \in quizzes : q.id = 1 /\ q.user_id = OtherUser
  /\ Cardinality({d \in quiz_details : d.quiz_id = 1}) = 2
  /\ ~(\E d \in quiz_details : d.quiz_id = 2)

====
